---- MODULE Spec2Model ----
(***************************************************************************)
(* A model of ship.py: one run of the command-line process, from the       *)
(* click group callback `cli` to the end of the sub-command it dispatches  *)
(* (create, update or destroy).  The process is single-threaded; `pc` is   *)
(* the statement it is about to execute.  Every external invocation        *)
(* (check_call / check_output) and every template rendering is appended to *)
(* `calls` together with its outcome.                                      *)
(***************************************************************************)
EXTENDS Integers, Sequences, FiniteSets, TLC

(***************************************************************************)
(* Bounds of the model.                                                    *)
(***************************************************************************)
\* largest --cluster-wait-timeout / --tiller-wait-timeout (minutes) tried
MaxTimeoutMinutes == 1
\* longest list of chartRepos in the values file
MaxRepos == 2
\* longest list of charts in the values file
MaxCharts == 2
\* duration in seconds of a slow availability probe
LongProbe == 45

(***************************************************************************)
(* Program constants.                                                      *)
(***************************************************************************)
\* time.sleep(30) in wait_cluster_available
ClusterInterval == 30
\* time.sleep(15) in wait_tiller_available
TillerInterval == 15
\* timeout_minutes * 60
SecondsPerMinute == 60

Tools == <<"terraform", "kops", "helm", "kubectl">>
ToolSet == {Tools[i] : i \in 1..Len(Tools)}

\* how long one availability probe (a blocking subprocess) may take
ProbeDurations == {0, LongProbe}

\* --cluster-wait-timeout / --tiller-wait-timeout are integers; click accepts
\* zero and negative values
TimeoutChoices == (-1)..MaxTimeoutMinutes

Range(s) == {s[i] : i \in 1..Len(s)}

VARIABLES
    world,       \* what is on disk when the process starts: the values file, the
                 \* schema file, the files and the directory the values file names
    pc,          \* the statement the process is about to execute; "exit" when it ended
    config,      \* the values document get_config returned (ctx.obj['config'])
    missingBin,  \* overridden binary paths that are not a file on disk
    bins,        \* the globals terraform_bin, kops_bin, helm_bin, kubectl_bin
    cmd,         \* the sub-command click dispatched and its options
    calls,       \* renderings and external invocations so far, in order
    prompts,     \* answers given to the click.confirm prompts shown so far
    exit_code,   \* the process exit status; -1 while it runs
    stderr,      \* what the process wrote to the error stream
    poll,        \* locals of the running poller (timeout_time, *_available) and the clock
    item,        \* position of the running for-loop in its list (0: no loop runs)
    tf_resources,\* local of generate_kops_config: the resource entries of the state file
    run          \* which run of the program this is, and what earlier runs left behind

vars == <<world, tf_resources, run, pc, config, missingBin, bins, cmd, calls, prompts, exit_code, stderr, poll, item>>

IdKeys == {"VPCID", "PublicNATGatewayID", "NodeSubnetID", "PublicSubnetID"}

NoConfig == [loaded |-> FALSE, overrides |-> {},
             clusterConfig |-> [k \in IdKeys |-> "absent"],
             chartRepos |-> [present |-> FALSE, items |-> <<>>],
             charts |-> [present |-> FALSE, items |-> <<>>]]

NoCmd == [name |-> "none", yes |-> FALSE, cluster_wait_timeout |-> 0, tiller_wait_timeout |-> 0]

\* `last` is what the probe of the running loop iteration returned or raised
NoPoll == [active |-> "none", clock |-> 0, timeout_time |-> 0, available |-> FALSE,
           last |-> "none"]

DefaultBins == [t \in ToolSet |-> "PATH"]

\* tf_resources before the state file is read
NoTfResources == [loaded |-> FALSE, names |-> {}]

\* the first run of the program; `values` is the content of the values file
\* once a run has read it
FirstRun == [n |-> 1, values |-> NoConfig]

\* the lists 1..n a chartRepos / charts key may hold, or the key absent
ListChoices(max) ==
    {[present |-> FALSE, items |-> <<>>]}
    \cup {[present |-> TRUE, items |-> [i \in 1..n |-> i]] : n \in 0..max}

\* a values file with no binary overridden, no identifier set in
\* clusterConfig, and the longest lists of chart repositories and charts
BaseConfig ==
    [loaded |-> TRUE, overrides |-> {},
     clusterConfig |-> [k \in IdKeys |-> "absent"],
     chartRepos |-> [present |-> TRUE, items |-> [i \in 1..MaxRepos |-> i]],
     charts |-> [present |-> TRUE, items |-> [i \in 1..MaxCharts |-> i]]]

\* the values files of the model: every choice of overridden binaries, every
\* choice of identifiers set explicitly, every choice of the two chart lists,
\* one section departing from BaseConfig at a time
Configs ==
    {[BaseConfig EXCEPT !.overrides = o] : o \in SUBSET ToolSet}
    \cup {[BaseConfig EXCEPT !.clusterConfig =
                               [k \in IdKeys |-> IF k \in e THEN "user" ELSE "absent"]] :
             e \in SUBSET IdKeys}
    \cup {[BaseConfig EXCEPT !.chartRepos = r, !.charts = c] :
             r \in ListChoices(MaxRepos), c \in ListChoices(MaxCharts)}

Call(op, arg, ok) == [op |-> op, arg |-> arg, ok |-> ok]

(***************************************************************************)
(* Ways the process ends.                                                  *)
(***************************************************************************)
\* print(<context>, str(e), file=sys.stderr); sys.exit(1)
ExitWithMessage(context, detail) ==
    /\ pc' = "exit"
    /\ exit_code' = 1
    /\ stderr' = Append(stderr, [kind |-> "message", text |-> context, detail |-> detail])

\* an exception nobody catches: the interpreter prints a traceback ending in
\* the exception's message and the process ends with status 1
ExitUncaught(text) ==
    /\ pc' = "exit"
    /\ exit_code' = 1
    /\ stderr' = Append(stderr, [kind |-> "traceback", text |-> "Traceback", detail |-> text])

\* click.Abort reaching click's main(): prints "Aborted!" and exits 1
ExitAborted ==
    /\ pc' = "exit"
    /\ exit_code' = 1
    /\ stderr' = Append(stderr, [kind |-> "message", text |-> "Aborted!", detail |-> ""])

\* the sub-command returned: click's main() exits with status 0
ExitSuccess ==
    /\ pc' = "exit"
    /\ exit_code' = 0
    /\ stderr' = stderr

\* validate_config is not reached unless the values file loads: the rest of
\* the disk is left out (all present) when it does not
Worlds ==
    {w \in [values_file : {"ok", "unreadable", "malformed", "undecodable"},
            schema_file : BOOLEAN, schema_valid : BOOLEAN, ssh_key : BOOLEAN,
            terraform_template : BOOLEAN, kops_template : BOOLEAN, output_dir : BOOLEAN] :
        w.values_file # "ok" =>
            /\ w.schema_file /\ w.schema_valid /\ w.ssh_key
            /\ w.terraform_template /\ w.kops_template /\ w.output_dir}

Init ==
    /\ world \in Worlds
    /\ pc = "get_config"
    /\ config = NoConfig
    /\ missingBin = {}
    /\ bins = DefaultBins
    /\ cmd = NoCmd
    /\ calls = <<>>
    /\ prompts = <<>>
    /\ exit_code = -1
    /\ stderr = <<>>
    /\ poll = NoPoll
    /\ item = 0
    /\ tf_resources = NoTfResources
    /\ run = FirstRun

(***************************************************************************)
(* cli: load the values file.                                              *)
(***************************************************************************)
\* what get_config can find in the values file: any values file of the model
\* in the first run, the unchanged file of the first run in a later one
ValuesFiles == IF run.n = 1 THEN Configs ELSE {run.values}

\* of the overridden binary paths, those that are no file on disk; nothing on
\* disk changes between two runs
MissingChoices(c) == IF run.n = 1 THEN SUBSET c.overrides ELSE {missingBin}

GetConfig ==
    /\ pc = "get_config"
    /\ CASE world.values_file = "ok" ->
              /\ \E c \in ValuesFiles : \E m \in MissingChoices(c) :
                    /\ config' = c
                    /\ missingBin' = m
                    /\ run' = [run EXCEPT !.values = c]
              /\ pc' = "validate_config"
              /\ UNCHANGED <<exit_code, stderr>>
         [] world.values_file = "unreadable" ->
              /\ ExitWithMessage("Failed to read values file:", "IOError")
              /\ UNCHANGED <<config, missingBin, run>>
         [] world.values_file = "malformed" ->
              /\ ExitWithMessage("Failed to parse values file:", "YAMLError")
              /\ UNCHANGED <<config, missingBin, run>>
         [] world.values_file = "undecodable" ->
              \* neither an IOError nor a yaml.YAMLError: no handler in cli
              /\ ExitUncaught("UnicodeDecodeError")
              /\ UNCHANGED <<config, missingBin, run>>
    /\ UNCHANGED <<world, tf_resources, bins, cmd, calls, prompts, poll, item>>

(***************************************************************************)
(* validate_config: the checks in the order of the code; the result is the *)
(* first one that fails.  `env` is what the checks find on disk.           *)
(***************************************************************************)
ValidateResult(env, overrides, missing) ==
    IF ~env.schema_file THEN "Failed to load config values schema file"
    ELSE IF ~env.schema_valid THEN "schema validation error"
    ELSE IF ~env.ssh_key THEN "SSH Public Key not found"
    ELSE IF ~env.terraform_template THEN "Terraform Template not found"
    ELSE IF ~env.kops_template THEN "Kops Template not found"
    ELSE IF ~env.output_dir THEN "output directory does not exist"
    ELSE IF "terraform" \in overrides /\ "terraform" \in missing THEN "terraform binary not found"
    ELSE IF "kops" \in overrides /\ "kops" \in missing THEN "kops binary not found"
    ELSE "valid"

\* cli printing the validation failure without sys.exit(1)
ValidateConfigNoExit ==
    /\ pc = "validate_config"
    /\ LET result == ValidateResult(world, config.overrides, missingBin) IN
       /\ pc' = "set_terraform_bin"
       /\ exit_code' = exit_code
       /\ stderr' = IF result = "valid" THEN stderr
                    ELSE Append(stderr, [kind |-> "message",
                                         text |-> "Config validation failed:",
                                         detail |-> result])
    /\ UNCHANGED <<world, tf_resources, run, config, missingBin, bins, cmd, calls, prompts, poll, item>>

ValidateConfig ==
    /\ pc = "validate_config"
    /\ LET result == ValidateResult(world, config.overrides, missingBin) IN
       IF result = "valid"
       THEN /\ pc' = "set_terraform_bin"
            /\ UNCHANGED <<exit_code, stderr>>
       ELSE ExitWithMessage("Config validation failed:", result)
    /\ UNCHANGED <<world, tf_resources, run, config, missingBin, bins, cmd, calls, prompts, poll, item>>

(***************************************************************************)
(* set_binary_paths: for each tool, take the override and probe the binary.*)
(***************************************************************************)
\* the outcomes of launching a binary and waiting for it
LaunchOutcomes(tool) ==
    IF tool \in missingBin THEN {"launch_failure"}
    ELSE {"ok", "nonzero_exit", "launch_failure"}

\* raise IOError("<tool> executable not valid: " + str(e))
ProbeError(tool) ==
    CASE tool = "terraform" -> "terraform executable not valid"
      [] tool = "kops" -> "kops executable not valid"
      [] tool = "helm" -> "helm executable not valid"
      [] tool = "kubectl" -> "kubectl executable not valid"

SetBinaryPath(tool, probe, next) ==
    /\ bins' = [bins EXCEPT ![tool] = IF tool \in config.overrides THEN "override" ELSE @]
    /\ \E outcome \in LaunchOutcomes(tool) :
          /\ calls' = Append(calls, Call(probe, 0, outcome = "ok"))
          /\ IF outcome = "ok"
             THEN /\ pc' = next
                  /\ UNCHANGED <<exit_code, stderr>>
             ELSE ExitUncaught(ProbeError(tool))
    /\ UNCHANGED <<world, tf_resources, run, config, missingBin, cmd, prompts, poll, item>>

SetTerraformBin ==
    /\ pc = "set_terraform_bin"
    /\ SetBinaryPath("terraform", "terraform_version", "set_kops_bin")

SetKopsBin ==
    /\ pc = "set_kops_bin"
    /\ SetBinaryPath("kops", "kops_version", "set_helm_bin")

\* the helm probe raising the error text of the kops probe
SetHelmBinMisnamed ==
    /\ pc = "set_helm_bin"
    /\ bins' = [bins EXCEPT !["helm"] = IF "helm" \in config.overrides THEN "override" ELSE @]
    /\ \E outcome \in LaunchOutcomes("helm") :
          /\ calls' = Append(calls, Call("helm_version_client", 0, outcome = "ok"))
          /\ IF outcome = "ok"
             THEN /\ pc' = "set_kubectl_bin"
                  /\ UNCHANGED <<exit_code, stderr>>
             ELSE ExitUncaught(ProbeError("kops"))
    /\ UNCHANGED <<world, tf_resources, run, config, missingBin, cmd, prompts, poll, item>>

SetHelmBin ==
    /\ pc = "set_helm_bin"
    /\ SetBinaryPath("helm", "helm_version_client", "set_kubectl_bin")

SetKubectlBin ==
    /\ pc = "set_kubectl_bin"
    /\ SetBinaryPath("kubectl", "kubectl_version_client", "invoke_command")

(***************************************************************************)
(* click dispatches the sub-command after the group callback returned; the *)
(* sub-command's options are parsed then.                                  *)
(***************************************************************************)
FirstStep(name) ==
    CASE name = "create" -> "generate_terraform_config"
      [] name = "update" -> "confirm_update"
      [] name = "destroy" -> "confirm_destroy"

\* the sub-commands a run is given: any in the first run; the run that
\* follows it is the repeated update
Commands == IF run.n = 1 THEN {"create", "update", "destroy"} ELSE {"update"}

InvokeCommand ==
    /\ pc = "invoke_command"
    /\ \E name \in Commands :
          /\ \/ /\ name = "create"
                /\ \E ct \in TimeoutChoices, tt \in TimeoutChoices :
                      cmd' = [name |-> name, yes |-> FALSE,
                              cluster_wait_timeout |-> ct, tiller_wait_timeout |-> tt]
             \/ /\ name # "create"
                /\ \E y \in BOOLEAN :
                      cmd' = [name |-> name, yes |-> y,
                              cluster_wait_timeout |-> 0, tiller_wait_timeout |-> 0]
          /\ pc' = FirstStep(name)
    /\ UNCHANGED <<world, tf_resources, run, config, missingBin, bins, calls, prompts, exit_code, stderr, poll, item>>

(***************************************************************************)
(* The drivers: each is one blocking check_call.  An exception raised      *)
(* inside the try block of the running sub-command is printed with the     *)
(* sub-command's context and the process exits 1; raised outside of it,    *)
(* nobody catches it.                                                      *)
(***************************************************************************)
TryContext(name) ==
    CASE name = "create" -> "Create cluster failed:"
      [] name = "update" -> "Update cluster failed:"
      [] name = "destroy" -> "Destroy cluster failed:"

Raise(caught, exception) ==
    IF caught
    THEN ExitWithMessage(TryContext(cmd.name), exception)
    ELSE ExitUncaught(exception)

CheckCall(op, arg, next, caught) ==
    \E ok \in BOOLEAN :
       /\ calls' = Append(calls, Call(op, arg, ok))
       /\ IF ok
          THEN /\ pc' = next
               /\ UNCHANGED <<exit_code, stderr>>
          ELSE Raise(caught, "CalledProcessError")

\* create with the SSH key added before the cluster is added
CreateAfterKeyFirst(step) ==
    CASE step = "generate_terraform_config" -> "terraform_apply"
      [] step = "terraform_apply" -> "generate_kops_config"
      [] step = "generate_kops_config" -> "kops_add_ssh_key"
      [] step = "kops_add_ssh_key" -> "kops_add_cluster"
      [] step = "kops_add_cluster" -> "kops_update_cluster"
      [] step = "kops_update_cluster" -> "wait_cluster_available"
      [] step = "wait_cluster_available" -> "kubectl_apply"
      [] step = "kubectl_apply" -> "helm_init"
      [] step = "helm_init" -> "wait_tiller_available"
      [] step = "wait_tiller_available" -> "add_chart_repos"
      [] step = "add_chart_repos" -> "install_charts"
      [] step = "install_charts" -> "return"

\* the statement after `step` in the body of create
CreateAfter(step) ==
    CASE step = "generate_terraform_config" -> "terraform_apply"
      [] step = "terraform_apply" -> "generate_kops_config"
      [] step = "generate_kops_config" -> "kops_add_cluster"
      [] step = "kops_add_cluster" -> "kops_add_ssh_key"
      [] step = "kops_add_ssh_key" -> "kops_update_cluster"
      [] step = "kops_update_cluster" -> "wait_cluster_available"
      [] step = "wait_cluster_available" -> "kubectl_apply"
      [] step = "kubectl_apply" -> "helm_init"
      [] step = "helm_init" -> "wait_tiller_available"
      [] step = "wait_tiller_available" -> "add_chart_repos"
      [] step = "add_chart_repos" -> "install_charts"
      [] step = "install_charts" -> "return"

\* update that goes from the rendered cluster template straight to the
\* cluster update
UpdateAfterNoReplace(step) ==
    CASE step = "confirm_update" -> "generate_terraform_config"
      [] step = "generate_terraform_config" -> "terraform_apply"
      [] step = "terraform_apply" -> "generate_kops_config"
      [] step = "generate_kops_config" -> "kops_update_cluster"
      [] step = "kops_update_cluster" -> "confirm_rolling_update"
      [] step = "kops_rolling_update" -> "return"

\* the statement after `step` in the body of update
UpdateAfter(step) ==
    CASE step = "confirm_update" -> "generate_terraform_config"
      [] step = "generate_terraform_config" -> "terraform_apply"
      [] step = "terraform_apply" -> "generate_kops_config"
      [] step = "generate_kops_config" -> "kops_replace_cluster"
      [] step = "kops_replace_cluster" -> "kops_update_cluster"
      [] step = "kops_update_cluster" -> "confirm_rolling_update"
      [] step = "kops_rolling_update" -> "return"

\* the statement after `step` in the body of destroy
DestroyAfter(step) ==
    CASE step = "confirm_destroy" -> "kops_destroy_cluster"
      [] step = "kops_destroy_cluster" -> "terraform_destroy"
      [] step = "terraform_destroy" -> "return"

After(step) ==
    CASE cmd.name = "create" -> CreateAfter(step)
      [] cmd.name = "update" -> UpdateAfter(step)
      [] cmd.name = "destroy" -> DestroyAfter(step)

GenerateTerraformConfig ==
    /\ pc = "generate_terraform_config"
    /\ CheckCall("render_terraform", 0, After("generate_terraform_config"), TRUE)
    /\ UNCHANGED <<world, tf_resources, run, config, missingBin, bins, cmd, prompts, poll, item>>

\* terraform_apply run again when it failed
TerraformApplyRetried ==
    /\ pc = "terraform_apply"
    /\ \E ok \in BOOLEAN :
          /\ calls' = Append(calls, Call("terraform_apply", 0, ok))
          /\ pc' = IF ok THEN After("terraform_apply") ELSE "terraform_apply"
    /\ UNCHANGED <<world, tf_resources, run, config, missingBin, bins, cmd, prompts,
                   exit_code, stderr, poll, item>>

TerraformApply ==
    /\ pc = "terraform_apply"
    /\ CheckCall("terraform_apply", 0, After("terraform_apply"), TRUE)
    /\ UNCHANGED <<world, tf_resources, run, config, missingBin, bins, cmd, prompts, poll, item>>

(***************************************************************************)
(* generate_kops_config: read the provisioner's state file, fill the       *)
(* identifiers clusterConfig does not hold, render the cluster template.   *)
(***************************************************************************)
EnrichOrder == <<"VPCID", "PublicNATGatewayID", "NodeSubnetID", "PublicSubnetID">>

ResourceOf(key) ==
    CASE key = "VPCID" -> "aws_vpc.ShortName"
      [] key = "PublicNATGatewayID" -> "aws_nat_gateway.public-region"
      [] key = "NodeSubnetID" -> "aws_subnet.nodes-region"
      [] key = "PublicSubnetID" -> "aws_subnet.public-region"

ResourceNames == {ResourceOf(k) : k \in IdKeys}

\* tf_resources[r]['primary']['id']
PrimaryId(r) ==
    CASE r = "aws_vpc.ShortName" -> "id of aws_vpc"
      [] r = "aws_nat_gateway.public-region" -> "id of aws_nat_gateway.public"
      [] r = "aws_subnet.nodes-region" -> "id of aws_subnet.nodes"
      [] r = "aws_subnet.public-region" -> "id of aws_subnet.public"

\* enrichment without the `not in cluster_config` tests: every identifier is
\* taken from the state file
RECURSIVE EnrichOverwriting(_, _, _)
EnrichOverwriting(cc, res, i) ==
    IF i > Len(EnrichOrder) THEN [ok |-> TRUE, cc |-> cc]
    ELSE LET k == EnrichOrder[i] IN
         IF ResourceOf(k) \notin res THEN [ok |-> FALSE, cc |-> cc]
         ELSE EnrichOverwriting([cc EXCEPT ![k] = PrimaryId(ResourceOf(k))], res, i + 1)

\* enrichment that leaves an identifier out when the state file has no entry
\* for it
RECURSIVE EnrichLenient(_, _, _)
EnrichLenient(cc, res, i) ==
    IF i > Len(EnrichOrder) THEN [ok |-> TRUE, cc |-> cc]
    ELSE LET k == EnrichOrder[i] IN
         IF cc[k] # "absent" \/ ResourceOf(k) \notin res
         THEN EnrichLenient(cc, res, i + 1)
         ELSE EnrichLenient([cc EXCEPT ![k] = PrimaryId(ResourceOf(k))], res, i + 1)

\* the four `if key not in cluster_config` statements from the i-th on, on
\* cluster_config cc with the resources `res` in the state file; a missing
\* resource raises KeyError and leaves the later keys untouched
RECURSIVE Enrich(_, _, _)
Enrich(cc, res, i) ==
    IF i > Len(EnrichOrder) THEN [ok |-> TRUE, cc |-> cc]
    ELSE LET k == EnrichOrder[i] IN
         IF cc[k] # "absent" THEN Enrich(cc, res, i + 1)
         ELSE IF ResourceOf(k) \notin res THEN [ok |-> FALSE, cc |-> cc]
         ELSE Enrich([cc EXCEPT ![k] = PrimaryId(ResourceOf(k))], res, i + 1)

\* lines 38-42: the state file is opened and parsed into tf_resources
LoadTerraformState ==
    /\ pc = "generate_kops_config"
    /\ \E state_ok \in BOOLEAN, res \in SUBSET ResourceNames :
          IF state_ok
          THEN /\ tf_resources' = [loaded |-> TRUE, names |-> res]
               /\ pc' = "enrich_cluster_config"
               /\ UNCHANGED <<calls, exit_code, stderr>>
          ELSE /\ calls' = Append(calls, Call("render_kops", 0, FALSE))
               /\ Raise(TRUE, "state file unreadable")
               /\ UNCHANGED tf_resources
    /\ UNCHANGED <<world, run, config, missingBin, bins, cmd, prompts, poll, item>>

\* lines 44-59: the identifiers are filled in and the cluster template is
\* rendered; the locals are gone once the function has returned
GenerateKopsConfig ==
    /\ pc = "enrich_cluster_config"
    /\ \E render_ok \in BOOLEAN :
          LET e == Enrich(config.clusterConfig, tf_resources.names, 1)
              ok == e.ok /\ render_ok
          IN /\ config' = [config EXCEPT !.clusterConfig = e.cc]
             /\ calls' = Append(calls, Call("render_kops", 0, ok))
             /\ IF ok
                THEN /\ pc' = After("generate_kops_config")
                     /\ tf_resources' = NoTfResources
                     /\ UNCHANGED <<exit_code, stderr>>
                ELSE /\ Raise(TRUE, IF ~e.ok THEN "KeyError" ELSE "template error")
                     /\ UNCHANGED tf_resources
    /\ UNCHANGED <<world, run, missingBin, bins, cmd, prompts, poll, item>>

KopsAddCluster ==
    /\ pc = "kops_add_cluster"
    /\ CheckCall("kops_create", 0, After("kops_add_cluster"), TRUE)
    /\ UNCHANGED <<world, tf_resources, run, config, missingBin, bins, cmd, prompts, poll, item>>

KopsAddSshKey ==
    /\ pc = "kops_add_ssh_key"
    /\ CheckCall("kops_create_secret", 0, After("kops_add_ssh_key"), TRUE)
    /\ UNCHANGED <<world, tf_resources, run, config, missingBin, bins, cmd, prompts, poll, item>>

KopsUpdateCluster ==
    /\ pc = "kops_update_cluster"
    /\ CheckCall("kops_update_cluster", 0, After("kops_update_cluster"), TRUE)
    /\ UNCHANGED <<world, tf_resources, run, config, missingBin, bins, cmd, prompts, poll, item>>

KopsReplaceCluster ==
    /\ pc = "kops_replace_cluster"
    /\ CheckCall("kops_replace_cluster", 0, After("kops_replace_cluster"), TRUE)
    /\ UNCHANGED <<world, tf_resources, run, config, missingBin, bins, cmd, prompts, poll, item>>

KopsRollingUpdate ==
    /\ pc = "kops_rolling_update"
    /\ CheckCall("kops_rolling_update", 0, After("kops_rolling_update"), TRUE)
    /\ UNCHANGED <<world, tf_resources, run, config, missingBin, bins, cmd, prompts, poll, item>>

\* kops_destroy_cluster with the exit status of the subprocess ignored
KopsDestroyClusterUnchecked ==
    /\ pc = "kops_destroy_cluster"
    /\ \E ok \in BOOLEAN : calls' = Append(calls, Call("kops_delete_cluster", 0, ok))
    /\ pc' = After("kops_destroy_cluster")
    /\ UNCHANGED <<world, tf_resources, run, config, missingBin, bins, cmd, prompts, exit_code, stderr, poll, item>>

KopsDestroyCluster ==
    /\ pc = "kops_destroy_cluster"
    /\ CheckCall("kops_delete_cluster", 0, After("kops_destroy_cluster"), TRUE)
    /\ UNCHANGED <<world, tf_resources, run, config, missingBin, bins, cmd, prompts, poll, item>>

TerraformDestroy ==
    /\ pc = "terraform_destroy"
    /\ CheckCall("terraform_destroy", 0, After("terraform_destroy"), TRUE)
    /\ UNCHANGED <<world, tf_resources, run, config, missingBin, bins, cmd, prompts, poll, item>>

\* the sub-command's function returned
Return ==
    /\ pc = "return"
    /\ ExitSuccess
    /\ UNCHANGED <<world, tf_resources, run, config, missingBin, bins, cmd, calls, prompts, poll, item>>

(***************************************************************************)
(* The confirmation prompts.  click.confirm returns the answer; on end of  *)
(* input or an interrupt it raises click.Abort (a RuntimeError), and with  *)
(* abort=True it raises click.Abort on a "no" as well.                     *)
(***************************************************************************)
Answers == {"yes", "no", "abort"}

\* if not yes: click.confirm(..., abort=True), outside of the try block
ConfirmOrAbort(step) ==
    IF cmd.yes
    THEN /\ pc' = After(step)
         /\ UNCHANGED <<prompts, exit_code, stderr>>
    ELSE \E answer \in Answers :
            /\ prompts' = Append(prompts, answer)
            /\ IF answer = "yes"
               THEN /\ pc' = After(step)
                    /\ UNCHANGED <<exit_code, stderr>>
               ELSE ExitAborted

\* click.confirm without abort=True, its answer dropped
ConfirmIgnored(step) ==
    IF cmd.yes
    THEN /\ pc' = After(step)
         /\ UNCHANGED <<prompts, exit_code, stderr>>
    ELSE \E answer \in Answers :
            /\ prompts' = Append(prompts, answer)
            /\ IF answer = "abort"
               THEN ExitAborted
               ELSE /\ pc' = After(step)
                    /\ UNCHANGED <<exit_code, stderr>>

ConfirmDestroyNoAbort ==
    /\ pc = "confirm_destroy"
    /\ ConfirmIgnored("confirm_destroy")
    /\ UNCHANGED <<world, tf_resources, run, config, missingBin, bins, cmd, calls, poll, item>>

ConfirmUpdateNoAbort ==
    /\ pc = "confirm_update"
    /\ ConfirmIgnored("confirm_update")
    /\ UNCHANGED <<world, tf_resources, run, config, missingBin, bins, cmd, calls, poll, item>>

ConfirmDestroy ==
    /\ pc = "confirm_destroy"
    /\ ConfirmOrAbort("confirm_destroy")
    /\ UNCHANGED <<world, tf_resources, run, config, missingBin, bins, cmd, calls, poll, item>>

ConfirmUpdate ==
    /\ pc = "confirm_update"
    /\ ConfirmOrAbort("confirm_update")
    /\ UNCHANGED <<world, tf_resources, run, config, missingBin, bins, cmd, calls, poll, item>>

\* the rolling update started whatever the answer to the prompt
ConfirmRollingUpdateIgnored ==
    /\ pc = "confirm_rolling_update"
    /\ IF cmd.yes
       THEN /\ pc' = "kops_rolling_update"
            /\ UNCHANGED <<prompts, exit_code, stderr>>
       ELSE \E answer \in Answers :
               /\ prompts' = Append(prompts, answer)
               /\ IF answer = "abort"
                  THEN Raise(TRUE, "Abort")
                  ELSE /\ pc' = "kops_rolling_update"
                       /\ UNCHANGED <<exit_code, stderr>>
    /\ UNCHANGED <<world, tf_resources, run, config, missingBin, bins, cmd, calls, poll, item>>

\* if yes or click.confirm('Should I initiate a rolling update?'), inside
\* the try block of update
ConfirmRollingUpdate ==
    /\ pc = "confirm_rolling_update"
    /\ IF cmd.yes
       THEN /\ pc' = "kops_rolling_update"
            /\ UNCHANGED <<prompts, exit_code, stderr>>
       ELSE \E answer \in Answers :
               /\ prompts' = Append(prompts, answer)
               /\ CASE answer = "yes" ->
                         /\ pc' = "kops_rolling_update"
                         /\ UNCHANGED <<exit_code, stderr>>
                    [] answer = "no" ->
                         /\ pc' = "return"
                         /\ UNCHANGED <<exit_code, stderr>>
                    [] answer = "abort" -> Raise(TRUE, "Abort")
    /\ UNCHANGED <<world, tf_resources, run, config, missingBin, bins, cmd, calls, poll, item>>

(***************************************************************************)
(* The availability pollers.  poll.clock is time.time(), counted in        *)
(* seconds from the poller's entry; it advances while a probe runs and     *)
(* while the poller sleeps.                                                *)
(***************************************************************************)
ClusterProbeOutcomes ==
    {"server_version", "no_server_version", "bad_json", "nonzero_exit", "launch_failure"}

TillerProbeOutcomes == {"zero_exit", "nonzero_exit", "launch_failure"}

\* the outcomes on which json.loads(check_output(...)) raises
ClusterProbeRaises == {"bad_json", "nonzero_exit", "launch_failure"}

\* the outcomes with 'serverVersion' in kubectl_versions
ClusterAvailable == {"server_version"}

\* the outcomes on which check_call raises
TillerProbeRaises == {"nonzero_exit", "launch_failure"}

\* `except CalledProcessError:` for the bare `except:`
ProbeExceptionCaughtNarrow(outcome) == outcome = "nonzero_exit"

\* the bare `except:` of both pollers catches whatever the probe raises
ProbeExceptionCaught(outcome) == TRUE

\* timeout_time = time.time() + (timeout_minutes * 60); available = False
PollerEnter(name, timeout_minutes, loop) ==
    /\ poll' = [active |-> name, clock |-> 0,
                timeout_time |-> 0 + (timeout_minutes * SecondsPerMinute),
                available |-> FALSE, last |-> "none"]
    /\ pc' = loop
    /\ UNCHANGED <<world, tf_resources, run, config, missingBin, bins, cmd, calls, prompts, exit_code, stderr, item>>

\* the loop condition with <= for <
LoopConditionInclusive(p) == ~p.available /\ p.clock <= p.timeout_time

\* while not available and time.time() < timeout_time
LoopCondition(p) == ~p.available /\ p.clock < p.timeout_time

PollerLoop(probe, after) ==
    /\ pc' = IF LoopCondition(poll) THEN probe ELSE after
    /\ UNCHANGED <<world, tf_resources, run, config, missingBin, bins, cmd, calls, prompts, exit_code, stderr, poll, item>>

\* the try statement of the loop body and the `if not available` after it
PollerProbe(op, outcomes, raises, available, loop, sleep) ==
    /\ \E outcome \in outcomes, d \in ProbeDurations :
          LET up == outcome \notin raises /\ outcome \in available IN
          /\ calls' = Append(calls, Call(op, 0, up))
          /\ IF outcome \in raises /\ ~ProbeExceptionCaught(outcome)
             THEN /\ poll' = [poll EXCEPT !.clock = @ + d, !.last = outcome]
                  /\ ExitUncaught(outcome)
             ELSE /\ poll' = [poll EXCEPT !.clock = @ + d, !.available = up,
                                          !.last = IF up THEN "none" ELSE outcome]
                  /\ pc' = IF up THEN loop ELSE sleep
                  /\ UNCHANGED <<exit_code, stderr>>
    /\ UNCHANGED <<world, tf_resources, run, config, missingBin, bins, cmd, prompts, item>>

\* a sleep cut short at the deadline
PollerSleepToDeadline(interval, loop) ==
    /\ poll' = [poll EXCEPT !.clock = IF @ + interval <= poll.timeout_time THEN @ + interval
                                      ELSE IF @ < poll.timeout_time THEN poll.timeout_time
                                      ELSE @,
                            !.last = "none"]
    /\ pc' = loop
    /\ UNCHANGED <<world, tf_resources, run, config, missingBin, bins, cmd, calls, prompts, exit_code, stderr, item>>

\* print("... Waiting N seconds before retrying."); time.sleep(N); what the
\* probe returned or raised is gone when the loop body ends
PollerSleep(interval, loop) ==
    /\ poll' = [poll EXCEPT !.clock = @ + interval, !.last = "none"]
    /\ pc' = loop
    /\ UNCHANGED <<world, tf_resources, run, config, missingBin, bins, cmd, calls, prompts, exit_code, stderr, item>>

\* if not available: print(..., file=sys.stderr); sys.exit(1)
PollerEnd(message, next) ==
    /\ IF ~poll.available
       THEN /\ ExitWithMessage(message, "")
            /\ poll' = poll
       ELSE /\ pc' = next
            /\ poll' = NoPoll
            /\ UNCHANGED <<exit_code, stderr>>
    /\ UNCHANGED <<world, tf_resources, run, config, missingBin, bins, cmd, calls, prompts, item>>

WaitClusterAvailable ==
    /\ pc = "wait_cluster_available"
    /\ PollerEnter("cluster", cmd.cluster_wait_timeout, "cluster_loop")

ClusterLoop ==
    /\ pc = "cluster_loop"
    /\ PollerLoop("cluster_probe", "cluster_end")

ClusterProbe ==
    /\ pc = "cluster_probe"
    /\ PollerProbe("kubectl_version_json", ClusterProbeOutcomes, ClusterProbeRaises,
                   ClusterAvailable, "cluster_loop", "cluster_sleep")

ClusterSleep ==
    /\ pc = "cluster_sleep"
    /\ PollerSleep(ClusterInterval, "cluster_loop")

\* wait_cluster_available printing the timeout without sys.exit(1)
ClusterEndNoExit ==
    /\ pc = "cluster_end"
    /\ pc' = After("wait_cluster_available")
    /\ poll' = NoPoll
    /\ exit_code' = exit_code
    /\ stderr' = IF ~poll.available
                 THEN Append(stderr, [kind |-> "message",
                                      text |-> "Kubernetes server could not be contacted.",
                                      detail |-> ""])
                 ELSE stderr
    /\ UNCHANGED <<world, tf_resources, run, config, missingBin, bins, cmd, calls, prompts, item>>

\* the final test of wait_cluster_available going back into the loop instead
\* of exiting
ClusterEndRetry ==
    /\ pc = "cluster_end"
    /\ IF ~poll.available
       THEN /\ pc' = "cluster_loop"
            /\ UNCHANGED <<poll, exit_code, stderr>>
       ELSE /\ pc' = After("wait_cluster_available")
            /\ poll' = NoPoll
            /\ UNCHANGED <<exit_code, stderr>>
    /\ UNCHANGED <<world, tf_resources, run, config, missingBin, bins, cmd, calls, prompts, item>>

ClusterEnd ==
    /\ pc = "cluster_end"
    /\ PollerEnd("Kubernetes server could not be contacted.", After("wait_cluster_available"))

\* check_call returned: tiller_available = True
TillerAvailable == {"zero_exit"}

WaitTillerAvailable ==
    /\ pc = "wait_tiller_available"
    /\ PollerEnter("tiller", cmd.tiller_wait_timeout, "tiller_loop")

TillerLoop ==
    /\ pc = "tiller_loop"
    /\ PollerLoop("tiller_probe", "tiller_end")

TillerProbe ==
    /\ pc = "tiller_probe"
    /\ PollerProbe("helm_version_server", TillerProbeOutcomes, TillerProbeRaises,
                   TillerAvailable, "tiller_loop", "tiller_sleep")

TillerSleep ==
    /\ pc = "tiller_sleep"
    /\ PollerSleep(TillerInterval, "tiller_loop")

TillerEnd ==
    /\ pc = "tiller_end"
    /\ PollerEnd("Helm tiller could not be contacted.", After("wait_tiller_available"))

(***************************************************************************)
(* install_components, called by create outside of its try block.          *)
(***************************************************************************)
KubectlApply ==
    /\ pc = "kubectl_apply"
    /\ CheckCall("kubectl_apply", 0, After("kubectl_apply"), FALSE)
    /\ UNCHANGED <<world, tf_resources, run, config, missingBin, bins, cmd, prompts, poll, item>>

HelmInit ==
    /\ pc = "helm_init"
    /\ CheckCall("helm_init", 0, After("helm_init"), FALSE)
    /\ UNCHANGED <<world, tf_resources, run, config, missingBin, bins, cmd, prompts, poll, item>>

\* the items a for-loop over config[key] visits: none when the key is absent
LoopItems(list) == IF list.present THEN list.items ELSE <<>>

\* the loop over the chart repos walking the list from its end
AddChartRepoReversed ==
    /\ pc = "add_chart_repos"
    /\ item < Len(LoopItems(config.chartRepos))
    /\ CheckCall("helm_repo_add",
                 LoopItems(config.chartRepos)[Len(LoopItems(config.chartRepos)) - item],
                 "add_chart_repos", FALSE)
    /\ item' = item + 1
    /\ UNCHANGED <<world, tf_resources, run, config, missingBin, bins, cmd, prompts, poll>>

\* one iteration of `for repo in config['chartRepos']`
AddChartRepo ==
    /\ pc = "add_chart_repos"
    /\ item < Len(LoopItems(config.chartRepos))
    /\ CheckCall("helm_repo_add", LoopItems(config.chartRepos)[item + 1], "add_chart_repos", FALSE)
    /\ item' = item + 1
    /\ UNCHANGED <<world, tf_resources, run, config, missingBin, bins, cmd, prompts, poll>>

\* the loop over the chart repos is exhausted, or the key is absent
ChartReposDone ==
    /\ pc = "add_chart_repos"
    /\ item >= Len(LoopItems(config.chartRepos))
    /\ pc' = After("add_chart_repos")
    /\ item' = 0
    /\ UNCHANGED <<world, tf_resources, run, config, missingBin, bins, cmd, calls, prompts, exit_code, stderr, poll>>

\* one iteration of `for chart in config['charts']`: install_chart
InstallChart ==
    /\ pc = "install_charts"
    /\ item < Len(LoopItems(config.charts))
    /\ CheckCall("helm_install", LoopItems(config.charts)[item + 1], "install_charts", FALSE)
    /\ item' = item + 1
    /\ UNCHANGED <<world, tf_resources, run, config, missingBin, bins, cmd, prompts, poll>>

\* the loop over the charts left one chart before the end of the list
ChartsDoneEarly ==
    /\ pc = "install_charts"
    /\ item >= Len(LoopItems(config.charts)) - 1
    /\ pc' = After("install_charts")
    /\ item' = 0
    /\ UNCHANGED <<world, tf_resources, run, config, missingBin, bins, cmd, calls, prompts, exit_code, stderr, poll>>

ChartsDone ==
    /\ pc = "install_charts"
    /\ item >= Len(LoopItems(config.charts))
    /\ pc' = After("install_charts")
    /\ item' = 0
    /\ UNCHANGED <<world, tf_resources, run, config, missingBin, bins, cmd, calls, prompts, exit_code, stderr, poll>>

(***************************************************************************)
(* The program is started again after a run that applied the               *)
(* infrastructure: a new process, the same files on disk.                  *)
(***************************************************************************)
Rerun ==
    /\ pc = "exit"
    /\ run.n = 1
    /\ \E i \in 1..Len(calls) : calls[i].op = "terraform_apply" /\ calls[i].ok
    /\ run' = [run EXCEPT !.n = 2]
    /\ pc' = "get_config"
    /\ config' = NoConfig
    /\ bins' = DefaultBins
    /\ cmd' = NoCmd
    /\ calls' = <<>>
    /\ prompts' = <<>>
    /\ exit_code' = -1
    /\ stderr' = <<>>
    /\ poll' = NoPoll
    /\ item' = 0
    /\ tf_resources' = NoTfResources
    /\ UNCHANGED <<world, missingBin>>

Next ==
    \/ GetConfig
    \/ ValidateConfig
    \/ SetTerraformBin
    \/ SetKopsBin
    \/ SetHelmBin
    \/ SetKubectlBin
    \/ InvokeCommand
    \/ GenerateTerraformConfig
    \/ TerraformApply
    \/ LoadTerraformState
    \/ GenerateKopsConfig
    \/ KopsAddCluster
    \/ KopsAddSshKey
    \/ KopsUpdateCluster
    \/ WaitClusterAvailable
    \/ ClusterLoop
    \/ ClusterProbe
    \/ ClusterSleep
    \/ ClusterEnd
    \/ KubectlApply
    \/ HelmInit
    \/ WaitTillerAvailable
    \/ TillerLoop
    \/ TillerProbe
    \/ TillerSleep
    \/ TillerEnd
    \/ AddChartRepo
    \/ ChartReposDone
    \/ InstallChart
    \/ ChartsDone
    \/ ConfirmUpdate
    \/ KopsReplaceCluster
    \/ ConfirmRollingUpdate
    \/ KopsRollingUpdate
    \/ ConfirmDestroy
    \/ KopsDestroyCluster
    \/ TerraformDestroy
    \/ Return
    \/ Rerun

Spec == Init /\ [][Next]_vars

\* the interpreter executes the next statement whenever there is one, and
\* every subprocess and every sleep returns
FairSpec == Spec /\ WF_vars(Next)

(***************************************************************************)
(* Properties.                                                             *)
(***************************************************************************)
\* positions of `calls` holding an invocation of op
At(op) == {i \in 1..Len(calls) : calls[i].op = op}

Invoked(op) == At(op) # {}

\* op was invoked and returned success
Succeeded(op) == \E i \in At(op) : calls[i].ok

\* the four probes of set_binary_paths
StartupProbes ==
    <<"terraform_version", "kops_version", "helm_version_client", "kubectl_version_client">>

\* the operations of the two availability pollers
AvailabilityProbes == {"kubectl_version_json", "helm_version_server"}

\* what the sub-command itself rendered and invoked: `calls` after the four
\* startup probes
FlowCalls == SubSeq(calls, Len(StartupProbes) + 1, Len(calls))

\* the order of the create flow
CreateOrder ==
    <<"render_terraform", "terraform_apply", "render_kops", "kops_create",
      "kops_create_secret", "kops_update_cluster", "kubectl_version_json",
      "kubectl_apply", "helm_init", "helm_version_server", "helm_repo_add",
      "helm_install">>

\* operations of the create flow that run once per probe attempt or list item
CreateRepeated == AvailabilityProbes \cup {"helm_repo_add", "helm_install"}

CreateRankOf ==
    [op \in Range(CreateOrder) |-> CHOOSE r \in 1..Len(CreateOrder) : CreateOrder[r] = op]

CreateRank(op) == CreateRankOf[op]

\* the r-th operation of the create flow succeeded before position j of flow:
\* a poll by a successful probe, the repository step by adding every
\* configured repository, any other by its one invocation
CreateStepSucceeded(flow, r, j) ==
    IF CreateOrder[r] = "helm_repo_add"
    THEN \A repo \in Range(LoopItems(config.chartRepos)) :
            \E i \in 1..(j - 1) :
               flow[i].op = "helm_repo_add" /\ flow[i].arg = repo /\ flow[i].ok
    ELSE \E i \in 1..(j - 1) : flow[i].op = CreateOrder[r] /\ flow[i].ok

\* C1: in the create flow the operations are invoked in the order render
\* infrastructure template, provisioner apply, render cluster template,
\* cluster add, add SSH key, cluster update, cluster availability poll,
\* permissions manifest, chart-installer init, chart-server availability
\* poll, add chart repos, install charts; and each is invoked only after
\* every earlier one has succeeded.
C1_CreateOrder ==
    cmd.name = "create" =>
        \A j \in 1..Len(FlowCalls) :
           /\ FlowCalls[j].op \in Range(CreateOrder)
           /\ \A i \in 1..(j - 1) :
                 /\ CreateRank(FlowCalls[i].op) <= CreateRank(FlowCalls[j].op)
                 /\ FlowCalls[i].op = FlowCalls[j].op => FlowCalls[i].op \in CreateRepeated
                 /\ FlowCalls[i].ok \/ FlowCalls[i].op \in AvailabilityProbes
           /\ \A r \in 1..(CreateRank(FlowCalls[j].op) - 1) :
                 CreateStepSucceeded(FlowCalls, r, j)

\* a create run that went through all twelve operations, with two chart
\* repositories and two charts, and ended with status 0
C1_Witness ==
    /\ cmd.name = "create"
    /\ pc = "exit"
    /\ exit_code = 0
    /\ \A r \in 1..Len(CreateOrder) : Succeeded(CreateOrder[r])
    /\ Cardinality(At("helm_repo_add")) = 2
    /\ Cardinality(At("helm_install")) = 2

\* C2: destroy run with --yes shows no confirmation prompt, invokes the
\* provisioner destroy only after the cluster-lifecycle delete succeeded,
\* and when the delete fails never attempts the provisioner destroy and
\* exits with status 1.
C2_DestroyYes ==
    (cmd.name = "destroy" /\ cmd.yes) =>
        /\ prompts = <<>>
        /\ \A j \in At("terraform_destroy") :
              \E i \in At("kops_delete_cluster") : i < j /\ calls[i].ok
        /\ (\E i \in At("kops_delete_cluster") : ~calls[i].ok) =>
              /\ ~Invoked("terraform_destroy")
              /\ pc = "exit"
              /\ exit_code = 1

\* destroy --yes whose cluster-lifecycle delete failed
C2_Witness ==
    /\ cmd.name = "destroy"
    /\ cmd.yes
    /\ \E i \in At("kops_delete_cluster") : ~calls[i].ok
    /\ pc = "exit"

\* the user answered "no" to the first prompt of the running sub-command
DeclinedFirst == Len(prompts) >= 1 /\ prompts[1] = "no"

\* C3 as stated: in update without --yes, when the user declines the first
\* confirmation the process aborts with a non-zero status before any
\* rendering or tool invocation has happened in that process run.
C3_Original ==
    (cmd.name = "update" /\ ~cmd.yes /\ DeclinedFirst) =>
        /\ pc = "exit"
        /\ exit_code # 0
        /\ calls = <<>>

\* C3, amended: in update without --yes, when the user declines the first
\* confirmation the process aborts with a non-zero status; the only tool
\* invocations of the run are the four startup probes of set_binary_paths,
\* each successful, and no rendering and no step of the update flow happened.
C3_UpdateDeclined ==
    (cmd.name = "update" /\ ~cmd.yes /\ DeclinedFirst) =>
        /\ pc = "exit"
        /\ exit_code = 1
        /\ Len(calls) = Len(StartupProbes)
        /\ \A i \in 1..Len(calls) : calls[i].op = StartupProbes[i] /\ calls[i].ok
        /\ FlowCalls = <<>>

\* update without --yes, first confirmation declined
C3_Witness ==
    /\ cmd.name = "update"
    /\ ~cmd.yes
    /\ prompts = <<"no">>
    /\ pc = "exit"

DestructiveDestroyOps == {"kops_delete_cluster", "terraform_destroy"}

\* C4: in destroy, neither the cluster-lifecycle delete nor the provisioner
\* destroy is invoked unless --yes was supplied or the user answered yes to
\* the prompt; a declined prompt ends the process with neither invoked.
C4_DestroyNeedsConsent ==
    cmd.name = "destroy" =>
        /\ (\E op \in DestructiveDestroyOps : Invoked(op)) =>
              (cmd.yes \/ prompts = <<"yes">>)
        /\ (Len(prompts) >= 1 /\ prompts[1] # "yes") =>
              /\ pc = "exit"
              /\ \A op \in DestructiveDestroyOps : ~Invoked(op)

\* destroy without --yes, declined at the prompt
C4_Witness ==
    /\ cmd.name = "destroy"
    /\ ~cmd.yes
    /\ prompts = <<"no">>
    /\ pc = "exit"
    /\ exit_code = 1

\* the answer to the second prompt of update ('Should I initiate a rolling
\* update?'), shown only without --yes and after the first was answered yes
SecondAnswer(a) == Len(prompts) = 2 /\ prompts[2] = a

\* C5: in update the rolling update is invoked if and only if provisioner
\* apply, cluster replace and cluster update all succeeded and either --yes
\* was supplied or the user confirmed the second prompt; when the user
\* declines the second prompt the flow finishes with exit status 0 and no
\* rolling update.
C5_RollingUpdate ==
    cmd.name = "update" =>
        LET ready == /\ Succeeded("terraform_apply")
                     /\ Succeeded("kops_replace_cluster")
                     /\ Succeeded("kops_update_cluster")
            consent == cmd.yes \/ SecondAnswer("yes")
        IN /\ Invoked("kops_rolling_update") => (ready /\ consent)
           /\ \A j \in At("kops_rolling_update") :
                 \A op \in {"terraform_apply", "kops_replace_cluster", "kops_update_cluster"} :
                    \E i \in At(op) : i < j /\ calls[i].ok
           /\ (pc = "exit" /\ ready /\ consent) => Invoked("kops_rolling_update")
           /\ (~cmd.yes /\ SecondAnswer("no")) =>
                 /\ ~Invoked("kops_rolling_update")
                 /\ pc \in {"return", "exit"}
                 /\ pc = "exit" => exit_code = 0

\* update without --yes ended after the user declined the rolling update
C5_Witness ==
    /\ cmd.name = "update"
    /\ ~cmd.yes
    /\ prompts = <<"yes", "no">>
    /\ pc = "exit"
    /\ exit_code = 0
    /\ Succeeded("kops_update_cluster")

\* the values file does not load or parse, or one of the checks of
\* validate_config fails on it
ConfigRejected ==
    \/ world.values_file # "ok"
    \/ /\ config.loaded
       /\ \/ ~world.schema_file
          \/ ~world.schema_valid
          \/ ~world.ssh_key
          \/ ~world.terraform_template
          \/ ~world.kops_template
          \/ ~world.output_dir
          \/ \E t \in {"terraform", "kops"} : t \in config.overrides /\ t \in missingBin

\* C6: for every configuration that fails to load, parse or validate (in
\* particular one that does not match the schema) the process exits with
\* status 1 before any external tool is invoked.
C6_InvalidConfigNoTool ==
    ConfigRejected =>
        /\ calls = <<>>
        /\ pc \in {"get_config", "validate_config", "exit"}
        /\ pc = "exit" => exit_code = 1

\* a values file that loads and does not match the schema, rejected
C6_Witness ==
    /\ world.values_file = "ok"
    /\ world.schema_file
    /\ ~world.schema_valid
    /\ config.loaded
    /\ pc = "exit"
    /\ exit_code = 1

\* the tool a startup probe belongs to
ProbedTool(i) == Tools[i]

\* the text of an error names the tool
NamesTool(text, tool) ==
    \/ tool = "terraform" /\ text = "terraform executable not valid"
    \/ tool = "kops" /\ text = "kops executable not valid"
    \/ tool = "helm" /\ text = "helm executable not valid"
    \/ tool = "kubectl" /\ text = "kubectl executable not valid"

\* C7: for each of the four tools, if its startup probe fails the process
\* aborts with an error naming that tool, and no mutating operation and no
\* command flow step has been attempted.
C7_ProbeFailureAborts ==
    \A i \in 1..Len(StartupProbes) :
       (\E n \in At(StartupProbes[i]) : ~calls[n].ok) =>
          /\ pc = "exit"
          /\ exit_code = 1
          /\ Len(stderr) >= 1
          /\ NamesTool(stderr[Len(stderr)].detail, ProbedTool(i))
          /\ \A n \in 1..Len(calls) : calls[n].op \in Range(StartupProbes)
          /\ Len(calls) = i
          /\ cmd = NoCmd
          /\ prompts = <<>>

\* the probe of the chart installer failed after the provisioner's and the
\* cluster-lifecycle tool's succeeded
C7_Witness ==
    /\ Succeeded("terraform_version")
    /\ Succeeded("kops_version")
    /\ \E n \in At("helm_version_client") : ~calls[n].ok
    /\ pc = "exit"

\* the smallest integer that is at least a / b, for a >= 0 and b > 0
CeilDiv(a, b) == (a + (b - 1)) \div b

\* the bound on the probe attempts of a poller: ceil(timeout / interval), and
\* no attempt for a timeout that is not positive
MaxAttempts(timeout_minutes, interval) ==
    IF timeout_minutes <= 0 THEN 0
    ELSE CeilDiv(timeout_minutes * SecondsPerMinute, interval)

LastError == stderr[Len(stderr)]

ClusterPollerPcs ==
    {"wait_cluster_available", "cluster_loop", "cluster_probe", "cluster_sleep", "cluster_end"}

TillerPollerPcs ==
    {"wait_tiller_available", "tiller_loop", "tiller_probe", "tiller_sleep", "tiller_end"}

\* C8: with a probe that never succeeds the cluster poller performs at most
\* ceil(timeout / interval) probe attempts before it declares the timeout and
\* exits with status 1; with interval 30 s and timeout 1 minute at most 2,
\* whatever the (non-negative) durations of the probes.
C8_ClusterPollerBound ==
    (cmd.name = "create" /\ ~Succeeded("kubectl_version_json")) =>
        /\ Cardinality(At("kubectl_version_json"))
              <= MaxAttempts(cmd.cluster_wait_timeout, ClusterInterval)
        /\ cmd.cluster_wait_timeout = 1 => Cardinality(At("kubectl_version_json")) <= 2
        /\ (poll.active = "cluster" /\ pc \notin ClusterPollerPcs) =>
              /\ pc = "exit"
              /\ exit_code = 1
              /\ LastError.text = "Kubernetes server could not be contacted."

\* timeout 1 minute, every probe failed, the second attempt was made and the
\* poller declared the timeout
C8_Witness ==
    /\ cmd.name = "create"
    /\ cmd.cluster_wait_timeout = 1
    /\ ~Succeeded("kubectl_version_json")
    /\ Cardinality(At("kubectl_version_json")) = 2
    /\ pc = "exit"
    /\ exit_code = 1

ClusterProbeFailures == {"nonzero_exit", "launch_failure", "bad_json", "no_server_version"}

TillerProbeFailures == {"nonzero_exit", "launch_failure"}

\* one step of a poller treats every failed probe as "not yet available" and
\* goes on to wait and retry; the poller ends the process only at its end
\* statement, unavailable and with the deadline reached; and while the
\* service is unavailable and the clock is before the deadline the loop goes
\* on to the next probe
C9_Step ==
    /\ pc = "cluster_probe" =>
          /\ pc' \in {"cluster_loop", "cluster_sleep"}
          /\ exit_code' = exit_code
          /\ poll'.last \in ClusterProbeFailures =>
                (pc' = "cluster_sleep" /\ ~poll'.available)
    /\ pc = "tiller_probe" =>
          /\ pc' \in {"tiller_loop", "tiller_sleep"}
          /\ exit_code' = exit_code
          /\ poll'.last \in TillerProbeFailures =>
                (pc' = "tiller_sleep" /\ ~poll'.available)
    /\ pc = "cluster_sleep" => pc' = "cluster_loop"
    /\ pc = "tiller_sleep" => pc' = "tiller_loop"
    /\ (pc = "cluster_loop" /\ ~poll.available /\ poll.clock < poll.timeout_time) =>
          pc' = "cluster_probe"
    /\ (pc = "tiller_loop" /\ ~poll.available /\ poll.clock < poll.timeout_time) =>
          pc' = "tiller_probe"
    /\ (pc \in (ClusterPollerPcs \cup TillerPollerPcs) /\ pc' = "exit") =>
          /\ pc \in {"cluster_end", "tiller_end"}
          /\ ~poll.available
          /\ poll.clock >= poll.timeout_time

\* C9: inside both pollers no probe outcome is fatal before the deadline: a
\* non-zero exit, a launch failure, malformed JSON output or (cluster
\* poller) a response without the server-version field are treated as not
\* yet available, and the poller keeps retrying while the current time is
\* before the deadline.
C9_ProbeFailuresNotFatal == [][C9_Step]_vars

\* the cluster poller caught malformed JSON before the deadline and goes on
\* to wait and retry
C9_Witness ==
    /\ pc = "cluster_sleep"
    /\ poll.active = "cluster"
    /\ poll.last = "bad_json"
    /\ poll.clock < poll.timeout_time
    /\ exit_code = -1

\* the poller declared its timeout on the error stream
DeclaredTimeout(message) == \E n \in 1..Len(stderr) : stderr[n].text = message

AfterClusterPoller ==
    {"kubectl_apply", "helm_init", "helm_version_server", "helm_repo_add", "helm_install"}

AfterTillerPoller == {"helm_repo_add", "helm_install"}

\* C10: when a poller's deadline passes without a successful probe the
\* process terminates with status 1 and nothing downstream runs: after a
\* cluster-poller timeout no permissions apply, chart-installer init, repo
\* add or chart install; after a chart-server-poller timeout no repo add or
\* chart install.
C10_TimeoutIsFatal ==
    /\ DeclaredTimeout("Kubernetes server could not be contacted.") =>
          /\ pc = "exit"
          /\ exit_code = 1
          /\ \A op \in AfterClusterPoller : ~Invoked(op)
    /\ DeclaredTimeout("Helm tiller could not be contacted.") =>
          /\ pc = "exit"
          /\ exit_code = 1
          /\ \A op \in AfterTillerPoller : ~Invoked(op)
    /\ (poll.active = "cluster" /\ pc \notin ClusterPollerPcs) =>
          DeclaredTimeout("Kubernetes server could not be contacted.")
    /\ (poll.active = "tiller" /\ pc \notin TillerPollerPcs) =>
          DeclaredTimeout("Helm tiller could not be contacted.")

\* the chart-server poller timed out after at least one failed probe
C10_Witness ==
    /\ poll.active = "tiller"
    /\ ~poll.available
    /\ poll.clock >= poll.timeout_time
    /\ Invoked("helm_version_server")
    /\ pc = "exit"
    /\ exit_code = 1

(***************************************************************************)
(* Enrichment of clusterConfig from the provisioner's state file.          *)
(***************************************************************************)
\* the identifier the state file holds for key k, as the specification names
\* it: the primary id of the VPC, the public NAT gateway, the node subnet
\* and the public subnet
StateFileId(k) ==
    CASE k = "VPCID" -> "id of aws_vpc"
      [] k = "PublicNATGatewayID" -> "id of aws_nat_gateway.public"
      [] k = "NodeSubnetID" -> "id of aws_subnet.nodes"
      [] k = "PublicSubnetID" -> "id of aws_subnet.public"

\* the resource entry of the state file that holds the identifier for key k
StateFileEntry(k) ==
    CASE k = "VPCID" -> "aws_vpc.ShortName"
      [] k = "PublicNATGatewayID" -> "aws_nat_gateway.public-region"
      [] k = "NodeSubnetID" -> "aws_subnet.nodes-region"
      [] k = "PublicSubnetID" -> "aws_subnet.public-region"

\* the step is generate_kops_config's enrichment and rendering
EnrichStep == pc = "enrich_cluster_config"

C11_Step ==
    /\ config.loaded /\ config'.loaded =>
          \A k \in IdKeys :
             config.clusterConfig[k] # "absent" =>
                config'.clusterConfig[k] = config.clusterConfig[k]
    /\ EnrichStep /\ pc' # "exit" =>
          \A k \in IdKeys :
             config.clusterConfig[k] = "absent" =>
                config'.clusterConfig[k] = StateFileId(k)

\* C11: an identifier that clusterConfig holds before enrichment is never
\* changed, by enrichment or by any other step; an identifier that is absent
\* is, once enrichment has succeeded, the primary id of its resource in the
\* state file.
C11_EnrichmentPrecedence == [][C11_Step]_vars

\* enrichment succeeded on a clusterConfig that held VPCID and lacked the
\* node subnet: the first is the user's, the second the state file's
C11_Witness ==
    /\ Succeeded("render_kops")
    /\ config.clusterConfig["VPCID"] = "user"
    /\ config.clusterConfig["NodeSubnetID"] = "id of aws_subnet.nodes"
    /\ run.values.clusterConfig["NodeSubnetID"] = "absent"

\* the cluster-lifecycle operations of the create and update flows
ClusterLifecycleOps ==
    {"kops_create", "kops_create_secret", "kops_replace_cluster",
     "kops_update_cluster", "kops_rolling_update"}

\* after the step the flow has aborted with status 1 and its context on the
\* error stream, and no cluster-lifecycle operation was invoked
EnrichmentFatal ==
    /\ pc' = "exit"
    /\ exit_code' = 1
    /\ stderr'[Len(stderr')].text = TryContext(cmd.name)
    /\ \A i \in 1..Len(calls') : calls'[i].op \notin ClusterLifecycleOps

\* the process that has exited takes no further step of its run
ExitIsFinal == pc = "exit" /\ pc' # "get_config" => calls' = calls /\ pc' = "exit"

C12_OriginalStep ==
    EnrichStep /\ tf_resources.names # {StateFileEntry(k) : k \in IdKeys}
       => EnrichmentFatal

\* C12 as stated: whenever one of the four resource entries is missing from
\* the state file, enrichment is fatal.
C12_Original == [][C12_OriginalStep]_vars

C12_Step ==
    /\ (EnrichStep /\ \E k \in IdKeys : /\ config.clusterConfig[k] = "absent"
                                        /\ StateFileEntry(k) \notin tf_resources.names)
          => EnrichmentFatal
    /\ (EnrichStep /\ cmd.name \notin {"create", "update"}) => FALSE
    /\ ExitIsFinal

\* C12: if the resource entry of an identifier that clusterConfig does not
\* hold is missing from the state file, enrichment fails fatally: the create
\* or update flow aborts with exit status 1 and no cluster-lifecycle
\* operation is invoked in that run.
C12_MissingNeededEntryFatal == [][C12_Step]_vars

\* a run ended in enrichment: the VPC entry, which clusterConfig needed, was
\* not in the state file
C12_Witness ==
    /\ pc = "exit"
    /\ exit_code = 1
    /\ cmd.name \in {"create", "update"}
    /\ tf_resources.loaded
    /\ config.clusterConfig["VPCID"] = "absent"
    /\ "aws_vpc.ShortName" \notin tf_resources.names
    /\ LastError.detail = "KeyError"

(***************************************************************************)
(* Error propagation.                                                      *)
(***************************************************************************)
\* C13: every failure of a run that has loaded its values file, a failed
\* startup probe and a failed step of the install phase of create included,
\* ends the process with status 1 after one line of context on the error
\* stream.
C13_OneLineMessage ==
    (pc = "exit" /\ config.loaded /\ exit_code # 0)
       => /\ exit_code = 1
          /\ stderr # <<>>
          /\ LastError.kind = "message"

(***************************************************************************)
(* The install phase of create.                                            *)
(***************************************************************************)
\* the list the values file declares under a key, empty without the key
Declared(list) == IF list.present THEN list.items ELSE <<>>

IsRepoAdd(c) == c.op = "helm_repo_add"

IsChartInstall(c) == c.op = "helm_install"

RepoAdds == SelectSeq(calls, IsRepoAdd)

ChartInstalls == SelectSeq(calls, IsChartInstall)

\* every operation the program can invoke; none removes or rolls back a release
KnownOps ==
    {"terraform_version", "kops_version", "helm_version_client", "kubectl_version_client",
     "render_terraform", "terraform_apply", "terraform_destroy", "render_kops",
     "kops_create", "kops_create_secret", "kops_update_cluster", "kops_replace_cluster",
     "kops_rolling_update", "kops_delete_cluster", "kubectl_version_json", "kubectl_apply",
     "helm_init", "helm_version_server", "helm_repo_add", "helm_install"}

\* the calls so far are the first calls of `declared`, in its order
InDeclarationOrder(done, declared) ==
    /\ Len(done) <= Len(declared)
    /\ \A i \in 1..Len(done) : done[i].arg = declared[i]

\* C14: the repositories are added in declaration order, all of them before
\* the first chart is installed; the charts are installed in declaration
\* order; a failed repo add or chart install is the last invocation of the
\* run, which ends with status 1; a create that ends with status 0 has added
\* every repository and installed every chart; nothing is ever uninstalled.
C14_InstallOrder ==
    /\ InDeclarationOrder(RepoAdds, Declared(run.values.chartRepos))
    /\ InDeclarationOrder(ChartInstalls, Declared(run.values.charts))
    /\ ChartInstalls # <<>> =>
          /\ Len(RepoAdds) = Len(Declared(run.values.chartRepos))
          /\ \A i \in At("helm_repo_add"), j \in At("helm_install") : i < j
    /\ \A i \in At("helm_repo_add") \cup At("helm_install") :
          ~calls[i].ok => i = Len(calls) /\ pc = "exit" /\ exit_code = 1
    /\ (pc = "exit" /\ exit_code = 0 /\ cmd.name = "create") =>
          /\ Len(RepoAdds) = Len(Declared(run.values.chartRepos))
          /\ Len(ChartInstalls) = Len(Declared(run.values.charts))
    /\ \A i \in 1..Len(calls) : calls[i].op \in KnownOps

\* two repositories were added and the first chart installed when the
\* second install failed: the run ended there
C14_Witness ==
    /\ pc = "exit"
    /\ Len(RepoAdds) = 2
    /\ Len(ChartInstalls) = 2
    /\ ChartInstalls[1].ok
    /\ ~ChartInstalls[2].ok
    /\ ChartInstalls[1].arg # ChartInstalls[2].arg

(***************************************************************************)
(* No retries outside the pollers.                                         *)
(***************************************************************************)
\* the external operations that change infrastructure, cluster or releases
MutatingOps ==
    {"terraform_apply", "terraform_destroy", "kops_create", "kops_create_secret",
     "kops_update_cluster", "kops_replace_cluster", "kops_rolling_update",
     "kops_delete_cluster", "kubectl_apply", "helm_init", "helm_repo_add", "helm_install"}

\* C15: in one run no operation is invoked twice with the same argument,
\* except the two availability probes; in particular every mutating
\* operation, each repo add and each chart install is invoked at most once.
C15_NoRetry ==
    \A i \in 1..Len(calls), j \in 1..Len(calls) :
       (i < j /\ calls[i].op = calls[j].op /\ calls[i].arg = calls[j].arg)
          => /\ calls[i].op \in AvailabilityProbes
             /\ calls[i].op \notin MutatingOps

\* a create in which both availability probes were repeated and a mutating
\* operation failed at its single invocation
C15_Witness ==
    /\ Cardinality(At("kubectl_version_json")) >= 2
    /\ Cardinality(At("helm_version_server")) >= 2
    /\ Invoked("helm_repo_add")
    /\ ~calls[Len(calls)].ok
    /\ calls[Len(calls)].op \in MutatingOps
    /\ pc = "exit"

(***************************************************************************)
(* update run again on applied infrastructure.                             *)
(***************************************************************************)
\* the run is an update that follows a run which applied the infrastructure,
\* with the values file and the templates unchanged
RepeatedUpdate == run.n = 2 /\ cmd.name = "update"

\* C16: in an update run again on applied infrastructure with unchanged
\* input, a terraform apply that succeeded is never where the run fails;
\* the cluster template rendered, cluster replace is invoked, and after it
\* cluster update; a repeated update that ends with status 0 has performed
\* both, in that order.
C16_RepeatedUpdate ==
    RepeatedUpdate =>
       /\ (Succeeded("terraform_apply") /\ pc = "exit" /\ exit_code # 0)
             => calls[Len(calls)].op # "terraform_apply"
       /\ Succeeded("terraform_apply") =>
             pc = "generate_kops_config" \/ pc = "enrich_cluster_config"
                \/ Invoked("render_kops")
       /\ Succeeded("render_kops") =>
             pc = "kops_replace_cluster" \/ Invoked("kops_replace_cluster")
       /\ Succeeded("kops_replace_cluster") =>
             pc = "kops_update_cluster" \/ Invoked("kops_update_cluster")
       /\ Invoked("kops_update_cluster") => Succeeded("kops_replace_cluster")
       /\ \A i \in At("kops_replace_cluster"), j \in At("kops_update_cluster") : i < j
       /\ (pc = "exit" /\ exit_code = 0) =>
             /\ Succeeded("terraform_apply")
             /\ Succeeded("kops_replace_cluster")
             /\ Succeeded("kops_update_cluster")

\* the repeated update ended with status 0 after apply, replace and update
C16_Witness ==
    /\ RepeatedUpdate
    /\ pc = "exit"
    /\ exit_code = 0
    /\ Succeeded("terraform_apply")
    /\ Succeeded("kops_replace_cluster")
    /\ Succeeded("kops_update_cluster")

(***************************************************************************)
(* Scenario: create with every tool succeeding and the cluster available   *)
(* at the second probe.                                                    *)
(***************************************************************************)
\* the position of the first cluster probe in the log
FirstClusterProbe ==
    CHOOSE i \in At("kubectl_version_json") : \A j \in At("kubectl_version_json") : i <= j

\* a create has ended; its first cluster probe found the cluster unavailable,
\* a later one found it, and every other rendering and invocation succeeded
AvailableOnSecondProbe ==
    /\ cmd.name = "create"
    /\ pc = "exit"
    /\ Cardinality(At("kubectl_version_json")) >= 2
    /\ ~calls[FirstClusterProbe].ok
    /\ \A i \in 1..Len(calls) : i # FirstClusterProbe => calls[i].ok

\* the create flow ran to completion
CreateCompleted ==
    /\ exit_code = 0
    /\ Succeeded("render_terraform")
    /\ Succeeded("render_kops")
    /\ Cardinality(At("kubectl_version_json")) = 2
    /\ Len(RepoAdds) = Len(Declared(run.values.chartRepos))
    /\ \A i \in 1..Len(RepoAdds) : RepoAdds[i].arg = Declared(run.values.chartRepos)[i]
    /\ Len(ChartInstalls) = Len(Declared(run.values.charts))
    /\ \A i \in 1..Len(ChartInstalls) : ChartInstalls[i].arg = Declared(run.values.charts)[i]
    /\ \A i \in At("helm_repo_add"), j \in At("helm_install") : i < j

\* C17 as stated: whatever the two wait timeouts, the scenario completes.
C17_Original == AvailableOnSecondProbe => CreateCompleted

\* C17: when every tool invocation succeeds, the cluster first answers at the
\* second cluster probe and the tiller wait timeout is positive, create runs
\* to completion: both rendered files are written, exactly two cluster
\* probes are made, every declared repository and chart is installed in
\* order, and the exit status is 0.
C17_ScenarioCompletes ==
    (AvailableOnSecondProbe /\ cmd.tiller_wait_timeout > 0) => CreateCompleted

\* the scenario with two repositories and two charts, ended with status 0
C17_Witness ==
    /\ AvailableOnSecondProbe
    /\ cmd.tiller_wait_timeout > 0
    /\ exit_code = 0
    /\ Len(RepoAdds) = 2
    /\ Len(ChartInstalls) = 2

(***************************************************************************)
(* Validation of overridden binary paths.                                  *)
(***************************************************************************)
\* C18: a values file that overrides the path of any of the four binaries
\* with a path that is no file is rejected by config validation: once
\* validation is over the process has exited with "Config validation
\* failed:" and no tool has been probed.
C18_OverridesValidated ==
    (config.loaded /\ pc # "validate_config" /\ missingBin # {})
       => /\ pc = "exit"
          /\ exit_code = 1
          /\ LastError.text = "Config validation failed:"
          /\ calls = <<>>

(***************************************************************************)
(* What the loops of the pollers imply.                                    *)
(***************************************************************************)
\* one poller in a step: its program points, its probe, its timeout option
\* and the seconds it sleeps
PollerStep(pcs, loop, probe, sleep, end, op, timeout_minutes, seconds) ==
    /\ (pc = end /\ pc' # "exit") =>
          /\ calls # <<>>
          /\ calls[Len(calls)].op = op
          /\ calls[Len(calls)].ok
    /\ (pc \in pcs /\ timeout_minutes <= 0) =>
          /\ calls' = calls
          /\ pc' \in {loop, end, "exit"}
          /\ pc = end => pc' = "exit" /\ exit_code' = 1
    /\ (pc = probe /\ pc' # "exit" /\ ~calls'[Len(calls')].ok) => pc' = sleep
    /\ pc = sleep =>
          /\ poll'.clock = poll.clock + seconds
          /\ pc' = loop
          /\ calls' = calls
    /\ pc' = end => pc = loop

C19_Step ==
    /\ PollerStep(ClusterPollerPcs, "cluster_loop", "cluster_probe", "cluster_sleep",
                  "cluster_end", "kubectl_version_json", cmd.cluster_wait_timeout, 30)
    /\ PollerStep(TillerPollerPcs, "tiller_loop", "tiller_probe", "tiller_sleep",
                  "tiller_end", "helm_version_server", cmd.tiller_wait_timeout, 15)

\* C19: a poller returns only when its last probe succeeded; with a timeout
\* of zero or less it makes no probe and exits 1; after every failed probe,
\* the last one before the deadline included, it sleeps its full interval
\* (30 s for the cluster, 15 s for tiller) and only then tests the deadline
\* again.
C19_PollerLoop == [][C19_Step]_vars

\* the cluster poller returned after a failed and a successful probe; the
\* tiller poller, with a timeout of zero or less, exited without a probe
C19_Witness ==
    /\ pc = "exit"
    /\ exit_code = 1
    /\ poll.active = "tiller"
    /\ cmd.tiller_wait_timeout <= 0
    /\ ~Invoked("helm_version_server")
    /\ Cardinality(At("kubectl_version_json")) >= 2

(***************************************************************************)
(* Termination of the pollers.                                             *)
(***************************************************************************)
\* C20: whatever the timeout and whatever the probes return, a poller that
\* was entered is left: wait_cluster_available returns to create or the
\* process exits, and so does wait_tiller_available.
C20_PollersTerminate ==
    /\ (pc \in ClusterPollerPcs) ~> (pc \in {"kubectl_apply", "exit"})
    /\ (pc \in TillerPollerPcs) ~> (pc \in {"add_chart_repos", "exit"})

\* the tiller poller gave up at its deadline after more than one failed
\* probe, the cluster poller having returned before
C20_Witness ==
    /\ pc = "exit"
    /\ poll.active = "tiller"
    /\ Cardinality(At("helm_version_server")) >= 2
    /\ \A i \in At("helm_version_server") : ~calls[i].ok
    /\ Succeeded("kubectl_version_json")
    /\ LastError.text = "Helm tiller could not be contacted."

====
